---- MODULE Spec2Model ----
(***************************************************************************)
(* Ethereum System (model/parts/ethereum.py): the two policy functions     *)
(* policy_network_issuance and policy_eip1559_transaction_pricing and the   *)
(* two state update functions update_eth_price and update_eth_supply, run  *)
(* once per timestep over a previous_state that the simulation engine       *)
(* threads from timestep to timestep.                                       *)
(*                                                                         *)
(* Python's numbers are modelled as exact rationals [n |-> numerator,       *)
(* d |-> denominator > 0] in lowest terms: "/" is true division, never an   *)
(* integer division.  Floating-point rounding is not modelled.              *)
(***************************************************************************)
EXTENDS Integers, Sequences, FiniteSets, TLC

\* ------------------------------------------------------------------ bounds
\* Last timestep the engine runs (timesteps 0 .. MaxTimestep).
MaxTimestep == 2
\* Timestep durations dt = 1 .. MaxDt (epochs).
MaxDt == 2
\* Run identifiers 1 .. MaxRun.
MaxRun == 2

\* --------------------------------------------------------------- constants
\* model.constants: Gwei per ETH, epochs per day, slots per epoch.
gwei == 1000000000
epochs_per_day == 225
slots_per_epoch == 32

\* model.types.Stage
Stages == {"PROOF_OF_WORK", "BEACON_CHAIN", "EIP1559", "PROOF_OF_STAKE"}

\* ------------------------------------------------------ Python arithmetic
Abs(x) == IF x < 0 THEN -x ELSE x

RECURSIVE GCD(_, _)
GCD(a, b) == IF b = 0 THEN a ELSE GCD(b, a % b)

\* The number n / d (d # 0) in lowest terms with a positive denominator.
Rat(n, d) ==
    LET g == GCD(Abs(n), Abs(d))
        s == IF d < 0 THEN -1 ELSE 1
    IN  [n |-> s * (n \div g), d |-> Abs(d) \div g]

\* An int as a number.
R(i) == [n |-> i, d |-> 1]

Zero == R(0)

\* a + b
RAdd(a, b) ==
    LET g == GCD(a.d, b.d)
    IN  Rat(a.n * (b.d \div g) + b.n * (a.d \div g), (a.d \div g) * b.d)

\* -a
RNeg(a) == [n |-> -a.n, d |-> a.d]

\* a - b
RSub(a, b) == RAdd(a, RNeg(b))

\* a * b
RMul(a, b) ==
    LET g1 == GCD(Abs(a.n), b.d)
        g2 == GCD(Abs(b.n), a.d)
    IN  Rat((a.n \div g1) * (b.n \div g2), (a.d \div g2) * (b.d \div g1))

\* a / b  (b # 0)
RDiv(a, b) == RMul(a, Rat(b.d, b.n))

\* a <= b
RLe(a, b) == a.n * b.d <= b.n * a.d

\* a < b
RLt(a, b) == a.n * b.d < b.n * a.d

\* abs(a)
RAbs(a) == [n |-> Abs(a.n), d |-> a.d]

\* ------------------------------------------------- policy_network_issuance
\* Mutant of pow_stage: proof-of-work issuance kept after the merge.
pow_stage_with_proof_of_stake(stage) ==
    stage \in {"BEACON_CHAIN", "EIP1559", "PROOF_OF_STAKE"}

\* Stage(stage) in [Stage.BEACON_CHAIN, Stage.EIP1559]
pow_stage(stage) == stage \in {"BEACON_CHAIN", "EIP1559"}

\* daily_pow_issuance / constants.epochs_per_day if pow_stage else 0
pow_issuance_of(params, previous_state) ==
    IF pow_stage(previous_state.stage)
    THEN RDiv(R(params.daily_pow_issuance), R(epochs_per_day))
    ELSE Zero

\* Mutant of validator_issuance: the burned base fee is not removed.
validator_issuance_without_burn(previous_state) ==
    RDiv(R((previous_state.total_online_validator_rewards
             - previous_state.total_tips_to_validators)
            - previous_state.amount_slashed),
         R(gwei))

\* ((rewards - tips) - amount_slashed - total_basefee) / constants.gwei
validator_issuance(previous_state) ==
    RDiv(R(((previous_state.total_online_validator_rewards
              - previous_state.total_tips_to_validators)
             - previous_state.amount_slashed)
            - previous_state.total_basefee),
         R(gwei))

policy_network_issuance(params, previous_state) ==
    LET dt == params.dt
        pow_issuance == pow_issuance_of(params, previous_state)
        network_issuance ==
            RAdd(validator_issuance(previous_state), RMul(pow_issuance, R(dt)))
    IN  [network_issuance |-> network_issuance, pow_issuance |-> pow_issuance]

\* -------------------------------------- policy_eip1559_transaction_pricing
\* The value of a call that raised: no result mapping.
NoResult == [raised |-> "AssertionError: invalid block: too much gas used"]

\* Mutant of fee_market_active: every stage after proof of work.
fee_market_active_after_pow(stage) == stage # "PROOF_OF_WORK"

\* stage in [Stage.EIP1559, Stage.PROOF_OF_STAKE]
fee_market_active(stage) == stage \in {"EIP1559", "PROOF_OF_STAKE"}

\* The three process calls, as <<process, run, time>>.
basefee_call(params, previous_state) ==
    <<"eip1559_basefee_process", previous_state.run,
      previous_state.timestep * params.dt>>

tip_call(params, previous_state) ==
    <<"eip1559_tip_process", previous_state.run,
      previous_state.timestep * params.dt>>

\* Mutant of transactions_call: sampled at timestep, not timestep * dt.
transactions_call_without_dt(params, previous_state) ==
    <<"daily_transactions_process", previous_state.run,
      previous_state.timestep>>

transactions_call(params, previous_state) ==
    <<"daily_transactions_process", previous_state.run,
      previous_state.timestep * params.dt>>

\* The sample a process call returns.
Sample(params, call) == R(params[call[1]][call[2], call[3]])

\* transactions_per_epoch * transaction_average_gas
gas_used_of(params, previous_state) ==
    LET transactions_per_day ==
            Sample(params, transactions_call(params, previous_state))
        transactions_per_epoch == RDiv(transactions_per_day, R(epochs_per_day))
    IN  RMul(transactions_per_epoch, R(params.transaction_average_gas))

\* Mutant of gas_check: strict comparison.
gas_check_strict(params, gas_used) ==
    RLt(gas_used,
        R((params.gas_target * params.ELASTICITY_MULTIPLIER) * slots_per_epoch))

\* Mutant of gas_check: the gas of the whole timestep is compared.
gas_check_scaled_by_dt(params, gas_used) ==
    RLe(RMul(gas_used, R(params.dt)),
        R((params.gas_target * params.ELASTICITY_MULTIPLIER) * slots_per_epoch))

\* assert gas_used <= gas_target * ELASTICITY_MULTIPLIER * constants.slots_per_epoch
gas_check(params, gas_used) ==
    RLe(gas_used,
        R((params.gas_target * params.ELASTICITY_MULTIPLIER) * slots_per_epoch))

\* Mutant of tips_split: the two branches exchanged.
tips_split_swapped(stage, total_tips) ==
    IF stage \in {"PROOF_OF_STAKE"}
    THEN <<total_tips, Zero>>
    ELSE <<Zero, total_tips>>

\* The stage-based split of total_tips: <<to miners, to validators>>.
tips_split(stage, total_tips) ==
    IF stage \in {"PROOF_OF_STAKE"}
    THEN <<Zero, total_tips>>
    ELSE <<total_tips, Zero>>

\* The returned basefee.
basefee_of(params, previous_state) ==
    Sample(params, basefee_call(params, previous_state))

\* A value scaled by dt in the returned mapping.
scaled(params, value) == RMul(value, R(params.dt))

\* [raised, calls, ret]: whether the assertion failed, the process calls made
\* in order, and the returned mapping (NoResult when raised).
policy_eip1559_transaction_pricing(params, previous_state) ==
    LET stage == previous_state.stage
    IN  IF ~ fee_market_active(stage)
        THEN [raised |-> FALSE,
              calls  |-> << >>,
              ret    |-> [basefee |-> Zero,
                          total_basefee |-> Zero,
                          total_tips_to_miners |-> Zero,
                          total_tips_to_validators |-> Zero]]
        ELSE
        LET basefee == basefee_of(params, previous_state)
            avg_tip_amount == Sample(params, tip_call(params, previous_state))
            gas_used == gas_used_of(params, previous_state)
            total_basefee == RMul(gas_used, basefee)
            total_tips == RMul(gas_used, avg_tip_amount)
            split == tips_split(stage, total_tips)
            calls == << basefee_call(params, previous_state),
                        tip_call(params, previous_state),
                        transactions_call(params, previous_state) >>
        IN  IF ~ gas_check(params, gas_used)
            THEN [raised |-> TRUE, calls |-> calls, ret |-> NoResult]
            ELSE [raised |-> FALSE,
                  calls  |-> calls,
                  ret    |-> [basefee |-> basefee,
                              total_basefee |-> scaled(params, total_basefee),
                              total_tips_to_miners |-> scaled(params, split[1]),
                              total_tips_to_validators |-> scaled(params, split[2])]]

\* ------------------------------------------------------------ state updates
price_call(params, previous_state) ==
    <<"eth_price_process", previous_state.run,
      previous_state.timestep * params.dt>>

\* Mutant of update_eth_price: the sample is taken as a change of the price.
update_eth_price_as_change(params, previous_state, policy_input) ==
    <<"eth_price",
      RAdd(previous_state.eth_price,
           R(params.eth_price_process[previous_state.run,
                                      previous_state.timestep * params.dt]))>>

update_eth_price(params, previous_state, policy_input) ==
    <<"eth_price", Sample(params, price_call(params, previous_state))>>

\* Mutant of update_eth_supply: only the proof-of-work issuance is added.
update_eth_supply_pow_only(params, previous_state, policy_input) ==
    <<"eth_supply",
      RAdd(previous_state.eth_supply, policy_input.pow_issuance)>>

update_eth_supply(params, previous_state, policy_input) ==
    <<"eth_supply",
      RAdd(previous_state.eth_supply, policy_input.network_issuance)>>

\* ------------------------------------------------------------------ inputs
Runs == 1 .. MaxRun
Times == 0 .. (MaxTimestep * MaxDt)

\* A process that returns v for every (run, time).
ConstantProcess(v) == [r \in Runs, t \in Times |-> v]

\* Base fee samples (Gwei per gas): constant, and one that jumps between
\* consecutive times.
BasefeeProcesses ==
    { ConstantProcess(5),
      [r \in Runs, t \in Times |-> IF t % 2 = 1 THEN 1 ELSE 10 + r] }

TipProcesses == { [r \in Runs, t \in Times |-> r + t] }

\* Transactions per day: 64 and 43 per epoch, and a count that is no whole
\* number of transactions per epoch.
TransactionsProcesses ==
    { ConstantProcess(64 * epochs_per_day),
      ConstantProcess(43 * epochs_per_day),
      [r \in Runs, t \in Times |-> 1000 * r + epochs_per_day * t] }

PriceProcesses == { [r \in Runs, t \in Times |-> 1000 + 100 * r + t] }

\* Parameters with a gas limit of 2 * 2 * 32 = 128 per epoch.
SmallParams ==
    [ dt : 1 .. MaxDt,
      daily_pow_issuance : {450, 13550},
      gas_target : {2},
      ELASTICITY_MULTIPLIER : {2},
      BASE_FEE_MAX_CHANGE_DENOMINATOR : {8},
      eip1559_basefee_process : BasefeeProcesses,
      eip1559_tip_process : TipProcesses,
      daily_transactions_process : TransactionsProcesses,
      transaction_average_gas : {2, 3},
      eth_price_process : PriceProcesses ]

\* The end-to-end scenario of the specification.
ScenarioParams ==
    [ dt |-> 1,
      daily_pow_issuance |-> 13550,
      gas_target |-> 15000000,
      ELASTICITY_MULTIPLIER |-> 2,
      BASE_FEE_MAX_CHANGE_DENOMINATOR |-> 8,
      eip1559_basefee_process |-> ConstantProcess(100),
      eip1559_tip_process |-> ConstantProcess(2),
      daily_transactions_process |-> ConstantProcess(epochs_per_day * 1000),
      transaction_average_gas |-> 21000,
      eth_price_process |-> ConstantProcess(2000) ]

Params == SmallParams \cup {ScenarioParams}

\* Aggregates of the validator subsystem, in Gwei: rewards above what is
\* burned and slashed, and burned plus slashed above the rewards.
Aggregates ==
    { [amount_slashed |-> 0, total_basefee |-> 100000000,
       total_tips_to_validators |-> 300000000,
       total_online_validator_rewards |-> 700000000],
      [amount_slashed |-> 700000000, total_basefee |-> 700000000,
       total_tips_to_validators |-> 300000000,
       total_online_validator_rewards |-> 0] }

\* The state of one (run, timestep).
SimulationState(run, timestep, stage, agg, basefee, eth_price, eth_supply) ==
    [ run |-> run, timestep |-> timestep, stage |-> stage,
      amount_slashed |-> agg.amount_slashed,
      total_basefee |-> agg.total_basefee,
      total_tips_to_validators |-> agg.total_tips_to_validators,
      total_online_validator_rewards |-> agg.total_online_validator_rewards,
      basefee |-> basefee, eth_price |-> eth_price, eth_supply |-> eth_supply ]

\* A signal or update not computed yet in this timestep.
Unset == [unset |-> TRUE]

\* ------------------------------------------------------------------- state
VARIABLES
    engine_params,      \* the params mapping of the run
    state,              \* previous_state of the current timestep
    pc,                 \* the function the engine calls next
    issuance_signal,    \* what policy_network_issuance returned
    pricing_signal,     \* what policy_eip1559_transaction_pricing returned
    process_calls,      \* the process calls the pricing policy made
    eth_price_update,   \* what update_eth_price returned
    eth_supply_update,  \* what update_eth_supply returned
    initial_supply,     \* eth_supply of the initial state
    issuances           \* network_issuance of each update_eth_supply so far

vars == << engine_params, state, pc, issuance_signal, pricing_signal,
           process_calls, eth_price_update, eth_supply_update,
           initial_supply, issuances >>

Init ==
    /\ engine_params \in Params
    /\ \E run \in Runs, stage \in Stages, agg \in Aggregates :
         state = SimulationState(run, 0, stage, agg, R(1), R(1500), R(1000))
    /\ pc = "policy_network_issuance"
    /\ issuance_signal = Unset
    /\ pricing_signal = Unset
    /\ process_calls = << >>
    /\ eth_price_update = Unset
    /\ eth_supply_update = Unset
    /\ initial_supply = R(1000)
    /\ issuances = << >>

\* The merged policy input the state update functions receive.
PolicyInput ==
    [ network_issuance |-> issuance_signal.network_issuance,
      pow_issuance |-> issuance_signal.pow_issuance,
      basefee |-> pricing_signal.basefee,
      total_basefee |-> pricing_signal.total_basefee,
      total_tips_to_miners |-> pricing_signal.total_tips_to_miners,
      total_tips_to_validators |-> pricing_signal.total_tips_to_validators ]

PolicyNetworkIssuance ==
    /\ pc = "policy_network_issuance"
    /\ issuance_signal' = policy_network_issuance(engine_params, state)
    /\ pc' = "policy_eip1559_transaction_pricing"
    /\ UNCHANGED << engine_params, state, pricing_signal, process_calls,
                    eth_price_update, eth_supply_update, initial_supply,
                    issuances >>

PolicyEip1559TransactionPricing ==
    /\ pc = "policy_eip1559_transaction_pricing"
    /\ LET out == policy_eip1559_transaction_pricing(engine_params, state)
       IN  /\ pricing_signal' = out.ret
           /\ process_calls' = out.calls
           /\ pc' = IF out.raised THEN "raised" ELSE "update_eth_price"
    /\ UNCHANGED << engine_params, state, issuance_signal, eth_price_update,
                    eth_supply_update, initial_supply, issuances >>

UpdateEthPrice ==
    /\ pc = "update_eth_price"
    /\ eth_price_update' = update_eth_price(engine_params, state, PolicyInput)
    /\ pc' = "update_eth_supply"
    /\ UNCHANGED << engine_params, state, issuance_signal, pricing_signal,
                    process_calls, eth_supply_update, initial_supply,
                    issuances >>

UpdateEthSupply ==
    /\ pc = "update_eth_supply"
    /\ eth_supply_update' = update_eth_supply(engine_params, state, PolicyInput)
    /\ issuances' = Append(issuances, PolicyInput.network_issuance)
    /\ pc' = "next_timestep"
    /\ UNCHANGED << engine_params, state, issuance_signal, pricing_signal,
                    process_calls, eth_price_update, initial_supply >>

\* The engine builds the next state from the updates and moves to the next
\* timestep; stage and aggregates come from outside this module.
NextTimestep ==
    /\ pc = "next_timestep"
    /\ state.timestep < MaxTimestep
    /\ \E stage \in Stages, agg \in Aggregates :
         state' = SimulationState(state.run, state.timestep + 1, stage, agg,
                                  pricing_signal.basefee,
                                  eth_price_update[2], eth_supply_update[2])
    /\ pc' = "policy_network_issuance"
    /\ issuance_signal' = Unset
    /\ pricing_signal' = Unset
    /\ process_calls' = << >>
    /\ eth_price_update' = Unset
    /\ eth_supply_update' = Unset
    /\ UNCHANGED << engine_params, initial_supply, issuances >>

Next ==
    \/ PolicyNetworkIssuance
    \/ PolicyEip1559TransactionPricing
    \/ UpdateEthPrice
    \/ UpdateEthSupply
    \/ NextTimestep

Spec == Init /\ [][Next]_vars

\* ---------------------------------------------------------------- positions
\* policy_network_issuance has returned in this timestep.
AfterIssuance == pc # "policy_network_issuance"

\* policy_eip1559_transaction_pricing has returned a mapping in this timestep.
PricingReturned == pc \in {"update_eth_price", "update_eth_supply", "next_timestep"}

\* policy_eip1559_transaction_pricing has ended, with a mapping or the error.
PricingEnded == PricingReturned \/ pc = "raised"

ActiveStage == state.stage \in {"EIP1559", "PROOF_OF_STAKE"}

\* The arguments every process is to be sampled at.
Now == state.timestep * engine_params.dt

SampledBasefee == R(engine_params.eip1559_basefee_process[state.run, Now])
SampledTip == R(engine_params.eip1559_tip_process[state.run, Now])
SampledTransactions == R(engine_params.daily_transactions_process[state.run, Now])

\* (transactions_per_day / epochs_per_day) * transaction_average_gas
GasUsed ==
    RMul(RDiv(SampledTransactions, R(epochs_per_day)),
         R(engine_params.transaction_average_gas))

GasLimit ==
    R(engine_params.gas_target * engine_params.ELASTICITY_MULTIPLIER
      * slots_per_epoch)

Dt == R(engine_params.dt)

\* ------------------------------------------------------------------- claims
\* C1: outside the stages EIP1559 and PROOF_OF_STAKE the pricing policy
\* returns basefee, total_basefee, total_tips_to_miners and
\* total_tips_to_validators all zero, calls no process and never fails the
\* gas check, whatever the parameters are.
C1_InactiveStageZeroNoCalls ==
    (PricingEnded /\ ~ ActiveStage) =>
        /\ pc # "raised"
        /\ pricing_signal = [basefee |-> Zero,
                             total_basefee |-> Zero,
                             total_tips_to_miners |-> Zero,
                             total_tips_to_validators |-> Zero]
        /\ process_calls = << >>

\* An inactive stage returned zeros under parameters whose gas use (192) is
\* above the limit (128).
C1_Witness ==
    /\ pc = "update_eth_price"
    /\ state.stage = "BEACON_CHAIN"
    /\ engine_params \in SmallParams
    /\ RLt(GasLimit, GasUsed)
    /\ pricing_signal.total_basefee = Zero

\* C2: in an active stage the pricing policy ends in the error, with no
\* result mapping, exactly when gas_used is strictly above
\* gas_target * ELASTICITY_MULTIPLIER * slots_per_epoch; at the limit it
\* returns a mapping, and nothing is clamped.
C2_GasCheckIffAboveLimit ==
    (PricingEnded /\ ActiveStage) =>
        /\ (pc = "raised") <=> RLt(GasLimit, GasUsed)
        /\ (pricing_signal = NoResult) <=> RLt(GasLimit, GasUsed)
        /\ ~ RLt(GasLimit, GasUsed) =>
               pricing_signal.total_basefee
                   = RMul(RMul(GasUsed, SampledBasefee), Dt)

\* gas_used one unit above the limit ended in the error.
C2_Witness ==
    /\ pc = "raised"
    /\ ActiveStage
    /\ GasUsed = RAdd(GasLimit, R(1))
    /\ pricing_signal = NoResult

\* C3: on success, with total_tips = gas_used * avg_tip, PROOF_OF_STAKE gives
\* miners 0 and validators total_tips * dt, EIP1559 the reverse; the two sum
\* to total_tips * dt and at most one is nonzero.
C3_TipsSplitByStage ==
    (PricingReturned /\ ActiveStage) =>
        LET total_tips == RMul(GasUsed, SampledTip)
            miners == pricing_signal.total_tips_to_miners
            validators == pricing_signal.total_tips_to_validators
        IN  /\ state.stage = "PROOF_OF_STAKE" =>
                 miners = Zero /\ validators = RMul(total_tips, Dt)
            /\ state.stage = "EIP1559" =>
                 validators = Zero /\ miners = RMul(total_tips, Dt)
            /\ RAdd(miners, validators) = RMul(total_tips, Dt)
            /\ miners = Zero \/ validators = Zero

\* Proof of stake with nonzero tips, all to validators, dt = 2.
C3_Witness ==
    /\ pc = "update_eth_price"
    /\ state.stage = "PROOF_OF_STAKE"
    /\ engine_params.dt = 2
    /\ pricing_signal.total_tips_to_validators # Zero
    /\ pricing_signal.total_tips_to_miners = Zero

\* C4: pow_issuance is daily_pow_issuance / epochs_per_day in the stages
\* BEACON_CHAIN and EIP1559 and 0 in every other stage; it is the per-epoch
\* value, not multiplied by dt.
C4_PowIssuanceByStage ==
    AfterIssuance =>
        issuance_signal.pow_issuance =
            IF state.stage \in {"BEACON_CHAIN", "EIP1559"}
            THEN Rat(engine_params.daily_pow_issuance, epochs_per_day)
            ELSE Zero

\* EIP1559 with dt = 2: the per-epoch value 13550 / 225 = 542 / 9.
C4_Witness ==
    /\ pc = "policy_eip1559_transaction_pricing"
    /\ state.stage = "EIP1559"
    /\ engine_params.dt = 2
    /\ engine_params.daily_pow_issuance = 13550
    /\ issuance_signal.pow_issuance = [n |-> 542, d |-> 9]

\* C5: network_issuance = (rewards - tips_to_validators - amount_slashed
\* - total_basefee) / gwei + pow_issuance * dt in every stage; only the
\* pow_issuance term is scaled by dt, and the result may be negative.
C5_NetworkIssuance ==
    AfterIssuance =>
        issuance_signal.network_issuance =
            RAdd(Rat(state.total_online_validator_rewards
                       - state.total_tips_to_validators
                       - state.amount_slashed
                       - state.total_basefee, gwei),
                 RMul(issuance_signal.pow_issuance, Dt))

\* Slashing and burn above the rewards, no pow issuance in PROOF_OF_STAKE:
\* (0 - 300000000 - 700000000 - 700000000) / gwei = -17 / 10.
C5_Witness ==
    /\ pc = "policy_eip1559_transaction_pricing"
    /\ state.stage = "PROOF_OF_STAKE"
    /\ state.amount_slashed = 700000000
    /\ engine_params.dt = 2
    /\ issuance_signal.network_issuance = [n |-> -17, d |-> 10]

\* i_1 + (i_2 + (... + i_N))
RECURSIVE SumFrom(_, _)
SumFrom(seq, k) ==
    IF k > Len(seq) THEN Zero ELSE RAdd(seq[k], SumFrom(seq, k + 1))

C7_PriceIsSampleOnly ==
    pc \in {"update_eth_supply", "next_timestep"} =>
        /\ eth_price_update
             = <<"eth_price", R(engine_params.eth_price_process[state.run, Now])>>
        /\ \A price \in {Zero, state.eth_price},
              stage \in Stages, agg \in Aggregates,
              input \in {PolicyInput,
                         [PolicyInput EXCEPT !.network_issuance = R(99),
                                             !.basefee = R(3)]} :
             update_eth_price(
                 engine_params,
                 SimulationState(state.run, state.timestep, stage, agg,
                                 R(2), price, R(5)),
                 input) = eth_price_update

\* A price update at timestep 2 with dt = 2 in a state whose eth_price is
\* another value than the sample.
C7_Witness ==
    /\ pc = "update_eth_supply"
    /\ state.timestep = 2
    /\ engine_params.dt = 2
    /\ engine_params \in SmallParams
    /\ eth_price_update = <<"eth_price", R(1000 + 100 * state.run + 4)>>
    /\ state.eth_price # eth_price_update[2]

\* C8: in an active stage with timestep > 1, every returned basefee differs
\* from the previous state's basefee by at most
\* slots_per_epoch / BASE_FEE_MAX_CHANGE_DENOMINATOR of the previous basefee
\* (a previous basefee of 0, which has no such fraction, is left out).
C8_BasefeeChangeBounded ==
    (PricingReturned /\ ActiveStage /\ state.timestep > 1
       /\ state.basefee # Zero) =>
        RLe(RDiv(RAbs(RSub(pricing_signal.basefee, state.basefee)),
                 state.basefee),
            Rat(slots_per_epoch, engine_params.BASE_FEE_MAX_CHANGE_DENOMINATOR))

\* C9: on success in an active stage the three processes are sampled at
\* (run, timestep * dt), basefee is the sample unscaled, and total_basefee is
\* (transactions_per_day / epochs_per_day) * transaction_average_gas
\* * basefee * dt; the end-to-end scenario in stage EIP1559 gives
\* total_basefee 2_100_000_000, tips to miners 42_000_000, to validators 0.
C9_SamplesAndTotals ==
    (PricingReturned /\ ActiveStage) =>
        /\ process_calls
             = << <<"eip1559_basefee_process", state.run, Now>>,
                  <<"eip1559_tip_process", state.run, Now>>,
                  <<"daily_transactions_process", state.run, Now>> >>
        /\ pricing_signal.basefee = SampledBasefee
        /\ pricing_signal.total_basefee
             = RMul(RMul(RMul(RDiv(SampledTransactions, R(epochs_per_day)),
                              R(engine_params.transaction_average_gas)),
                         SampledBasefee),
                    Dt)
        /\ (engine_params = ScenarioParams /\ state.stage = "EIP1559") =>
             /\ pricing_signal.basefee = R(100)
             /\ pricing_signal.total_basefee = R(2100000000)
             /\ pricing_signal.total_tips_to_miners = R(42000000)
             /\ pricing_signal.total_tips_to_validators = Zero

\* The end-to-end scenario has returned in stage EIP1559.
C9_Witness ==
    /\ pc = "update_eth_price"
    /\ engine_params = ScenarioParams
    /\ state.stage = "EIP1559"
    /\ state.timestep = 1
    /\ pricing_signal.total_basefee = R(2100000000)

\* engine_params with dt = d and processes that return the samples of this
\* timestep at every (run, time).
WithDt(d) ==
    [engine_params EXCEPT
        !.dt = d,
        !.eip1559_basefee_process =
            ConstantProcess(engine_params.eip1559_basefee_process[state.run, Now]),
        !.eip1559_tip_process =
            ConstantProcess(engine_params.eip1559_tip_process[state.run, Now]),
        !.daily_transactions_process =
            ConstantProcess(engine_params.daily_transactions_process[state.run, Now])]

\* C10: the gas check compares the per-epoch gas_used with a bound without
\* dt: for the same samples the call passes or fails alike for every dt,
\* while the returned totals are in proportion to dt.
C10_GasCheckIndependentOfDt ==
    (PricingEnded /\ ActiveStage /\ engine_params \in SmallParams) =>
        \A d \in 1 .. MaxDt :
            LET other ==
                    policy_eip1559_transaction_pricing(WithDt(d), state)
            IN  /\ other.raised <=> pc = "raised"
                /\ ~ other.raised =>
                     /\ other.ret.basefee = pricing_signal.basefee
                     /\ RMul(other.ret.total_basefee, Dt)
                          = RMul(pricing_signal.total_basefee, R(d))
                     /\ RMul(other.ret.total_tips_to_miners, Dt)
                          = RMul(pricing_signal.total_tips_to_miners, R(d))
                     /\ RMul(other.ret.total_tips_to_validators, Dt)
                          = RMul(pricing_signal.total_tips_to_validators, R(d))

\* gas_used exactly at the limit passes with dt = 2 and nonzero totals.
C10_Witness ==
    /\ pc = "update_eth_price"
    /\ ActiveStage
    /\ engine_params \in SmallParams
    /\ engine_params.dt = 2
    /\ GasUsed = GasLimit
    /\ pricing_signal.total_basefee
         = RMul(RMul(GasLimit, SampledBasefee), R(2))
====
